---- MODULE Spec2Model ----
(***************************************************************************)
(* Battery-Health-Prediction: the extraction script (src/src/load_data.py) *)
(* and the health estimation script (src/src/process_data.py) as a state   *)
(* machine over the files they read and write.                             *)
(*                                                                         *)
(* Units.  Measured quantities are floating point in the program; the      *)
(* model keeps them exact as integers: voltage in 0.1 V, current in 0.1 A, *)
(* time in seconds.  A charge transfer is kept as current * seconds, that  *)
(* is in units of 1/36000 Ah.  A table cell is <<v>> for the number v and  *)
(* << >> for the empty string "" (which pandas reads back as NaN).         *)
(***************************************************************************)
EXTENDS Integers, Sequences, FiniteSets, TLC

\* ---------------------------------------------------------------- bounds
\* cap on the rows of the metadata index (cycles extracted over all runs)
MaxRows == 3
\* the num_bins argument the model runs compute_battery_health with
NumBins == 3
\* longest discharge series of the exhaustive health inputs
MaxLen == 4
\* longest raw field of the exhaustive serializer inputs
MaxFieldLen == 2
\* runs of load_data.py against the same output folder
MaxRuns == 2

\* --------------------------------------------------------------- helpers
Range(s) == {s[k] : k \in DOMAIN s}

Max(a, b) == IF a >= b THEN a ELSE b

Abs(a) == IF a < 0 THEN -a ELSE a

\* the "" cell, and the cell of a number
Pad == << >>

Num(v) == <<v>>

IsNaN(c) == c = << >>

RECURSIVE IndexOf(_, _)
IndexOf(s, x) ==
    IF s = << >> THEN 0
    ELSE IF Head(s) = x THEN 1
    ELSE LET r == IndexOf(Tail(s), x) IN IF r = 0 THEN 0 ELSE r + 1

\* ------------------------------------------------- load_data.py, lines 6-21
\* A MATLAB date vector is a sequence of numbers, the seconds in
\* milliseconds.  The text "[y. m. d. h. mi. s.mmm]" is kept as the tuple of
\* the six printed numbers, the text "[]" as the empty tuple.
format_matlab_time(matlab_time) ==
    IF Len(matlab_time) # 6 THEN << >>
    ELSE [k \in 1..6 |-> matlab_time[k]]

\* ------------------------------------------------ load_data.py, lines 23-71
charge_fields ==
    <<"Voltage_measured", "Current_measured", "Temperature_measured",
      "Current_charge", "Voltage_charge", "Time">>

discharge_fields ==
    <<"Voltage_measured", "Current_measured", "Temperature_measured",
      "Current_load", "Voltage_load", "Time">>

impedance_fields ==
    <<"Sense_current", "Battery_current", "Current_ratio",
      "Battery_impedance", "Rectified_Impedance">>

KnownTypes == {"charge", "discharge", "impedance"}

FieldsOf(cycle_type) ==
    IF cycle_type = "charge" THEN charge_fields
    ELSE IF cycle_type = "discharge" THEN discharge_fields
    ELSE impedance_fields

\* arr.astype(object): the numbers of a raw field as cells
Cells(arr) == [k \in 1..Len(arr) |-> Num(arr[k])]

\* lines 53-60: the column of every declared field, in declared order
DataDict(fields, data) ==
    [name \in Range(fields) |->
        IF name \in DOMAIN data THEN Cells(data[name]) ELSE << >>]

\* lines 50, 58: the running maximum over the fields present
RECURSIVE MaxLenOver(_, _, _)
MaxLenOver(fields, data, k) ==
    IF k = 0 THEN 0
    ELSE LET prev == MaxLenOver(fields, data, k - 1)
         IN  IF fields[k] \in DOMAIN data
             THEN Max(prev, Len(data[fields[k]]))
             ELSE prev

\* a serializer that leaves short columns short
PadColumnNever(column, max_len) == column

\* lines 62-67: right-pad a shorter column with ""
PadColumn(column, max_len) ==
    IF Len(column) < max_len
    THEN column \o [k \in 1..(max_len - Len(column)) |-> Pad]
    ELSE column

\* What process_cycle_data does with one cycle: out is the message it
\* prints, df the table it writes to file_path (none when it returns early).
process_cycle_data(c, cycle_type) ==
    IF ~c.has_data THEN [out |-> "no_data", df |-> << >>]
    ELSE IF cycle_type \notin KnownTypes THEN [out |-> "unknown_type", df |-> << >>]
    ELSE LET fields == FieldsOf(cycle_type)
             max_len == MaxLenOver(fields, c.data, Len(fields))
             data_dict == DataDict(fields, c.data)
         IN  [out |-> "saved",
              df |-> [columns |-> fields,
                      col |-> [name \in Range(fields) |->
                                  PadColumn(data_dict[name], max_len)]]]

\* five-digit zero-padded decimal of f"{file_id:05d}.csv" (wider from 100000
\* on), kept as its digits; the ".csv" suffix is the same for every file
RECURSIVE Digits(_)
Digits(n) == IF n < 10 THEN <<n>> ELSE Digits(n \div 10) \o <<n % 10>>

FileNumber(id) ==
    LET d == Digits(id)
    IN  IF Len(d) >= 5 THEN d ELSE [k \in 1..(5 - Len(d)) |-> 0] \o d

\* ----------------------------------------------------------------- inputs
\* A file name is the sequence of its parts between dots.  The source folder
\* holds recordings named <battery_id>.mat and other files.
FilenamesSorted ==
    << <<"B0005", "mat">>, <<"B0049", "mat">>, <<"B0053", "mat">>,
       <<"README", "txt">> >>

\* sorted(os.listdir(dataset_folder)): the names that can follow `name` in
\* the sorted listing of a folder (any, for the empty name before the first)
After(name) ==
    { FilenamesSorted[k] : k \in (IndexOf(FilenamesSorted, name) + 1)..Len(FilenamesSorted) }

\* one sample of a measured series
Sample(v, i, t) == [V |-> v, I |-> i, T |-> 24, Time |-> t]

\* the raw fields of a cycle that measured this series
DataOf(series) ==
    ("Voltage_measured" :> [k \in 1..Len(series) |-> series[k].V]) @@
    ("Current_measured" :> [k \in 1..Len(series) |-> series[k].I]) @@
    ("Temperature_measured" :> [k \in 1..Len(series) |-> series[k].T]) @@
    ("Time" :> [k \in 1..Len(series) |-> series[k].Time])

\* n samples at 3.0 V and constant current, one an hour
Steady(n, cur) == [k \in 1..n |-> Sample(30, cur, (k - 1) * 3600)]

GoodTime == <<2008, 4, 2, 13, 8, 17921>>

RawCycle(type, time, data) ==
    [type |-> type, time |-> time, ambient_temperature |-> 24,
     has_data |-> TRUE, data |-> data]

\* The cycles the extraction runs read: a discharge at 2 A long enough to be
\* binned, one at 2 A too short to fill the bins, a charge, an impedance
\* sweep and a cycle of a type the program does not know.
CycleInputs ==
    { RawCycle("discharge", GoodTime, DataOf(Steady(NumBins + 1, -20)) @@ ("Capacity" :> <<18>>)),
      RawCycle("discharge", GoodTime, DataOf(Steady(NumBins - 1, -20))),
      RawCycle("charge", GoodTime, DataOf(Steady(NumBins, 15))),
      RawCycle("impedance", GoodTime,
               ("Sense_current" :> <<8, 9>>) @@ ("Battery_current" :> <<3>>) @@
               ("Re" :> <<4>>) @@ ("Rct" :> <<7>>)),
      RawCycle("rest", <<2008, 4, 2>>, DataOf(Steady(1, 0))) }

\* A struct array has one dtype: every cycle of a battery has the 'data'
\* field or none has.  Without it only type, time and temperature exist.
NoDataCycles ==
    { [type |-> t, time |-> GoodTime, ambient_temperature |-> 24,
       has_data |-> FALSE, data |-> << >>]
      : t \in {"charge", "discharge"} }

\* no cycle read yet
NoCycle ==
    [type |-> "", time |-> << >>, ambient_temperature |-> 0,
     has_data |-> FALSE, data |-> << >>]

\* ------------------------------------------------------------------ state
VARIABLES
    pc,            \* "idle": no script runs; "main", "loop": load_data.py;
                   \* "health": process_data.py
    runs,          \* how many times load_data.py was started
    filename,      \* line 126: the file name the loop is at (<< >> before it)
    file_id,       \* the module-level counter of line 73
    battery_id,    \* process_metadata_and_cycles: its argument
    has_data,      \* whether cycle_data's dtype has the 'data' field
    test_id,       \* line 87
    cycle,         \* line 90: the cycle the loop read last
    cycle_info,    \* line 86
    saved,         \* the file numbers process_cycle_data wrote in this call
    metadata,      \* dataset/processed/metadata.csv: exists, lines
    files,         \* dataset/processed/data: file number -> table
    discharge_metadata,  \* process_data.py, line 23
    hi,                  \* line 27: the position of the row iterrows is at
    processed_dfs,       \* line 25
    health               \* battery_health_dataset.csv: exists, rows

vars == <<pc, runs, filename, file_id, battery_id, has_data, test_id, cycle, cycle_info,
          saved,
          metadata, files, discharge_metadata, hi, processed_dfs, health>>

health_locals == <<discharge_metadata, hi, processed_dfs>>

load_vars == <<runs, filename, file_id, battery_id, has_data, test_id, cycle, cycle_info,
               saved>>

\* ------------------------------------------- load_data.py, lines 104-118
metadata_columns ==
    <<"type", "start_time", "ambient_temperature", "battery_id",
      "test_id", "uid", "filename", "Capacity", "Re", "Rct">>

\* row[name] of a metadata row
Get(row, name) == row[IndexOf(metadata_columns, name)]

\* the metadata rows of the index: pd.read_csv takes the first line as header
Rows(lines) == IF lines = << >> THEN << >> ELSE Tail(lines)

ExcludedFiles ==
    { <<"B0049", "mat">>, <<"B0050", "mat">>, <<"B0051", "mat">>, <<"B0052", "mat">> }

\* filename.endswith(".mat")
EndsWithMat(name) == Len(name) >= 2 /\ name[Len(name)] = "mat"

\* a filter that only looks at the extension
AcceptedAnyMat(name) == EndsWithMat(name)

\* line 128
Accepted(name) == EndsWithMat(name) /\ name \notin ExcludedFiles

\* the process ends: its memory is gone
LoadExit ==
    /\ pc' = "idle"
    /\ filename' = << >>
    /\ file_id' = 1
    /\ battery_id' = ""
    /\ has_data' = TRUE
    /\ test_id' = 0
    /\ cycle' = NoCycle
    /\ cycle_info' = << >>
    /\ saved' = {}

Init ==
    /\ pc = "idle"
    /\ runs = 0
    /\ filename = << >>
    /\ file_id = 1
    /\ battery_id = ""
    /\ has_data = TRUE
    /\ test_id = 0
    /\ cycle = NoCycle
    /\ cycle_info = << >>
    /\ saved = {}
    /\ metadata = [exists |-> FALSE, lines |-> << >>]
    /\ files = << >>
    /\ discharge_metadata = << >>
    /\ hi = 0
    /\ processed_dfs = << >>
    /\ health = [exists |-> FALSE, rows |-> << >>]

\* lines 73, 120-125: a run of load_data.py starts
StartRun ==
    /\ pc = "idle"
    /\ runs < MaxRuns
    /\ runs' = runs + 1
    /\ \/ \* line 123: the source folder does not exist
          /\ LoadExit
       \/ /\ file_id' = 1
          /\ pc' = "main"
          /\ UNCHANGED <<filename, battery_id, has_data, test_id, cycle, cycle_info, saved>>
    /\ UNCHANGED <<metadata, files, health_locals, health>>

\* lines 126-136 and 81-87: the loop reaches the next name of the listing
NextFile ==
    /\ pc = "main"
    /\ \E next \in After(filename) :
         /\ filename' = next
         /\ \/ /\ Accepted(next)
               /\ battery_id' = next[1]
               /\ has_data' \in BOOLEAN
               /\ test_id' = 0
               /\ cycle' = NoCycle
               /\ cycle_info' = << >>
               /\ saved' = {}
               /\ pc' = "loop"
            \/ /\ ~Accepted(next)
               /\ UNCHANGED <<pc, battery_id, has_data, test_id, cycle, cycle_info, saved>>
    /\ UNCHANGED <<runs, file_id, metadata, files, health_locals, health>>

\* line 138: the listing is exhausted
EndRun ==
    /\ pc = "main"
    /\ LoadExit
    /\ UNCHANGED <<runs, metadata, files, health_locals, health>>

\* lines 100-102: the optional scalar of the metadata row
Scalar(c, cycle_type, wanted_type, name) ==
    IF cycle_type = wanted_type /\ name \in DOMAIN c.data
    THEN Num(c.data[name][1])
    ELSE Pad

\* lines 100-102 raise when the 'data' field they index is missing
ScalarsRaise(c, cycle_type) ==
    cycle_type \in {"discharge", "impedance"} /\ ~c.has_data

\* lines 104-106
MetadataRow(c, cycle_type, bid, tid, fid) ==
    <<cycle_type, format_matlab_time(c.time), c.ambient_temperature,
      bid, tid, fid, FileNumber(fid),
      Scalar(c, cycle_type, "discharge", "Capacity"),
      Scalar(c, cycle_type, "impedance", "Re"),
      Scalar(c, cycle_type, "impedance", "Rct")>>

\* line 109, and line 108
NextFileId(fid) == fid + 1

\* lines 89-109: one iteration of the loop over the cycle axis
LoopIteration(cycles) ==
    /\ pc = "loop"
    /\ Len(Rows(metadata.lines)) + Len(cycle_info) < MaxRows
    /\ \E c \in cycles :
         LET cycle_type == c.type
             file_number == FileNumber(file_id)
             r == process_cycle_data(c, cycle_type)
         IN  /\ c.has_data = has_data
             /\ files' = IF r.out = "saved"
                         THEN (file_number :> r.df) @@ files
                         ELSE files
             /\ \/ /\ ScalarsRaise(c, cycle_type)
                   /\ LoadExit
                \/ /\ ~ScalarsRaise(c, cycle_type)
                   /\ cycle' = c
                   /\ saved' = IF r.out = "saved"
                               THEN saved \cup {file_number}
                               ELSE saved
                   /\ cycle_info' = Append(cycle_info,
                          MetadataRow(c, cycle_type, battery_id, test_id, file_id))
                   /\ test_id' = test_id + 1
                   /\ file_id' = NextFileId(file_id)
                   /\ UNCHANGED <<pc, filename, battery_id, has_data>>
    /\ UNCHANGED <<runs, metadata, health_locals, health>>

\* a writer that puts the header on every append
WriteHeaderAlways(exists) == TRUE

\* line 117: header = not os.path.exists(metadata_path)
WriteHeader(exists) == ~exists

\* line 117: to_csv(mode='a')
AppendCsv(file, rows) ==
    [exists |-> TRUE,
     lines |-> file.lines
               \o (IF WriteHeader(file.exists) THEN <<metadata_columns>> ELSE << >>)
               \o rows]

\* lines 111-118: the cycle axis is exhausted, the rows are appended
EndCall ==
    /\ pc = "loop"
    /\ metadata' = AppendCsv(metadata, cycle_info)
    /\ pc' = "main"
    /\ battery_id' = ""
    /\ has_data' = TRUE
    /\ test_id' = 0
    /\ cycle' = NoCycle
    /\ cycle_info' = << >>
    /\ saved' = {}
    /\ UNCHANGED <<runs, filename, file_id, files, health_locals, health>>

ExtractCycle == LoopIteration(CycleInputs \cup NoDataCycles)

\* -------------------------------------------- process_data.py, lines 5-80
\* disc_cutoff_voltage = 2.7 V, in 0.1 V
CutoffVoltage == 27

\* min_capacity = 1.4 Ah and nominal_capacity = 2.0 Ah, in 0.1 A * s
MinCapacity == 14 * 3600

NominalCapacity == 20 * 3600

\* line 22: the rows of type discharge, in the order of the index
RECURSIVE DischargeRows(_)
DischargeRows(rows) ==
    IF rows = << >> THEN << >>
    ELSE (IF Get(Head(rows), "type") = "discharge" THEN <<Head(rows)>> ELSE << >>)
         \o DischargeRows(Tail(rows))

\* a count that does not group by battery
CumCountAll(rows, k) == k - 1

\* groupby('battery_id').cumcount() of row k: the rows of its group before it
CumCount(rows, k) ==
    Cardinality({j \in 1..(k - 1) :
                    Get(rows[j], "battery_id") = Get(rows[k], "battery_id")})

\* line 23
CycleNumber(rows, k) == CumCount(rows, k) + 1

\* lines 18-23: discharge_metadata, each row with its cycle_number
DischargeMetadata(lines) ==
    LET rows == DischargeRows(Rows(lines))
    IN  [k \in 1..Len(rows) |->
            [row |-> rows[k], cycle_number |-> CycleNumber(rows, k)]]

\* line 30 raises when the file is missing, lines 32-38 when a column is
HealthRaises(filenumber) ==
    \/ filenumber \notin DOMAIN files
    \/ ~({"Voltage_measured", "Current_measured", "Time"}
            \subseteq Range(files[filenumber].columns))

\* line 30: the table as rows of cells; an empty cell reads as NaN
read_csv(table) ==
    LET n == Len(table.col[table.columns[1]])
    IN  [k \in 1..n |->
            [name \in Range(table.columns) |-> table.col[name][k]]]

\* a comparison that also cuts at the cutoff voltage itself
BelowOrEqual(cell, cutoff) == ~IsNaN(cell) /\ cell[1] <= cutoff

\* line 32: NaN compares False
Below(cell, cutoff) == ~IsNaN(cell) /\ cell[1] < cutoff

\* line 32: the positions (from 0) of the rows below the cutoff
BelowCutoff(df) ==
    {k \in 0..(Len(df) - 1) : Below(df[k + 1]["Voltage_measured"], CutoffVoltage)}

SetMin(S) == CHOOSE m \in S : \A x \in S : m <= x

\* line 33: df, or df.iloc[:cutoff_idx]
Trim(df) ==
    IF BelowCutoff(df) = {} THEN df
    ELSE SubSeq(df, 1, SetMin(BelowCutoff(df)))

\* line 36: Time.diff().fillna(0), in seconds
TimeDiff(df, k) ==
    IF k = 1 \/ IsNaN(df[k]["Time"]) \/ IsNaN(df[k - 1]["Time"]) THEN 0
    ELSE df[k]["Time"][1] - df[k - 1]["Time"][1]

\* line 38: Delta_Q of row k (a cell: NaN when the current is)
DeltaQ(df, k) ==
    IF IsNaN(df[k]["Current_measured"]) THEN Pad
    ELSE Num(df[k]["Current_measured"][1] * TimeDiff(df, k))

\* Series.sum() of cells up to row k, NaN skipped
RECURSIVE SumDeltaQ(_, _)
SumDeltaQ(df, k) ==
    IF k = 0 THEN 0
    ELSE SumDeltaQ(df, k - 1) + (IF IsNaN(DeltaQ(df, k)) THEN 0 ELSE DeltaQ(df, k)[1])

\* line 39
Capacity(df) == Abs(SumDeltaQ(df, Len(df)))

\* a threshold that lets a cycle of exactly min_capacity through
CapacityAtLeast(capacity) == capacity >= MinCapacity

\* line 41
CapacityAccepted(capacity) == capacity > MinCapacity

\* lines 46-47: SoC of row k as the fraction <<numerator, denominator>> of
\* (1 + Cumulative_Q / capacity) * 100, NaN when Delta_Q is
SoC(df, k, capacity) ==
    IF IsNaN(DeltaQ(df, k)) THEN Pad
    ELSE Num(<<100 * (capacity + SumDeltaQ(df, k)), capacity>>)

\* np.array_split: the size of section k (from 1) of n rows cut in num_bins
SectionSize(n, num_bins, k) ==
    IF k <= n % num_bins THEN n \div num_bins + 1 ELSE n \div num_bins

RECURSIVE SectionStart(_, _, _)
SectionStart(n, num_bins, k) ==
    IF k = 1 THEN 1
    ELSE SectionStart(n, num_bins, k - 1) + SectionSize(n, num_bins, k - 1)

\* line 53: the bins, each the positions of its rows
ArraySplit(n, num_bins) ==
    [k \in 1..num_bins |->
        [j \in 1..SectionSize(n, num_bins, k) |-> SectionStart(n, num_bins, k) + j - 1]]

RECURSIVE SumCells(_)
SumCells(cells) ==
    IF cells = << >> THEN 0
    ELSE (IF IsNaN(Head(cells)) THEN 0 ELSE Head(cells)[1]) + SumCells(Tail(cells))

\* Series.mean(): NaN skipped; the mean is kept as <<sum, count>>
Mean(cells) ==
    <<SumCells(cells), Cardinality({k \in DOMAIN cells : ~IsNaN(cells[k])})>>

\* the SoC fractions of a bin share the denominator: <<sum of numerators,
\* count, denominator>>
MeanSoC(cells, capacity) ==
    <<SumCells([k \in DOMAIN cells |->
                  IF IsNaN(cells[k]) THEN Pad ELSE Num(cells[k][1][1])]),
      Cardinality({k \in DOMAIN cells : ~IsNaN(cells[k])}), capacity>>

\* lines 58-66: the averaged row of one bin b of trimmed_df
AggRow(df, b, capacity, row) ==
    [Voltage_measured |-> Mean([j \in DOMAIN b |-> df[b[j]]["Voltage_measured"]]),
     Current_measured |-> Mean([j \in DOMAIN b |-> df[b[j]]["Current_measured"]]),
     Temperature_measured |-> Mean([j \in DOMAIN b |-> df[b[j]]["Temperature_measured"]]),
     SoC |-> MeanSoC([j \in DOMAIN b |-> SoC(df, b[j], capacity)], capacity),
     cycle_number |-> row.cycle_number,
     battery_id |-> Get(row.row, "battery_id"),
     SoH |-> <<100 * capacity, NominalCapacity>>]

\* lines 54-66: one row per bin that is not empty
RECURSIVE AggRows(_, _, _, _)
AggRows(df, bins, capacity, row) ==
    IF bins = << >> THEN << >>
    ELSE (IF Head(bins) = << >> THEN << >>
          ELSE <<AggRow(df, Head(bins), capacity, row)>>)
         \o AggRows(df, Tail(bins), capacity, row)

\* an estimator that keeps every group that has a row
KeepAny(cycle_df, num_bins) == cycle_df # << >>

\* line 69
KeepGroup(cycle_df, num_bins) == Len(cycle_df) = num_bins

\* lines 30-70: what one discharge row adds to processed_dfs
CycleGroups(row, num_bins) ==
    LET trimmed_df == Trim(read_csv(files[Get(row.row, "filename")]))
        capacity == Capacity(trimmed_df)
        cycle_df == AggRows(trimmed_df, ArraySplit(Len(trimmed_df), num_bins),
                            capacity, row)
    IN  IF CapacityAccepted(capacity) /\ KeepGroup(cycle_df, num_bins)
        THEN <<cycle_df>>
        ELSE << >>

\* pd.concat
RECURSIVE Concat(_)
Concat(dfs) == IF dfs = << >> THEN << >> ELSE Head(dfs) \o Concat(Tail(dfs))

\* lines 18-25: process_data.py starts
HealthStart ==
    /\ pc = "idle"
    /\ \/ \* line 18 raises: there is no metadata index
          /\ ~metadata.exists
          /\ UNCHANGED <<pc, discharge_metadata, processed_dfs, hi>>
       \/ /\ metadata.exists
          /\ discharge_metadata' = DischargeMetadata(metadata.lines)
          /\ processed_dfs' = << >>
          /\ hi' = 1
          /\ pc' = "health"
    /\ UNCHANGED <<load_vars, metadata, files, health>>

\* lines 27-73: one discharge row
HealthRow ==
    /\ pc = "health"
    /\ hi <= Len(discharge_metadata)
    /\ hi' = hi + 1
    /\ LET row == discharge_metadata[hi]
       IN  \/ \* line 72: the error is caught and printed
              /\ HealthRaises(Get(row.row, "filename"))
              /\ UNCHANGED processed_dfs
           \/ /\ ~HealthRaises(Get(row.row, "filename"))
              /\ processed_dfs' = processed_dfs \o CycleGroups(row, NumBins)
    /\ UNCHANGED <<pc, discharge_metadata, load_vars, metadata, files, health>>

\* lines 75-80
HealthFinish ==
    /\ pc = "health"
    /\ hi > Len(discharge_metadata)
    /\ health' = IF processed_dfs # << >>
                 THEN [exists |-> TRUE, rows |-> Concat(processed_dfs)]
                 ELSE health
    /\ pc' = "idle"
    /\ discharge_metadata' = << >>
    /\ processed_dfs' = << >>
    /\ hi' = 0
    /\ UNCHANGED <<load_vars, metadata, files>>

Next ==
    \/ StartRun \/ NextFile \/ EndRun \/ ExtractCycle \/ EndCall
    \/ HealthStart \/ HealthRow \/ HealthFinish

Spec == Init /\ [][Next]_vars

\* ------------------------------------------ the serializer on every cycle
\* a raw field of n numbers
Ramp(n) == [k \in 1..n |-> 10 + k]

\* every choice of declared fields present, each of every length
FieldData(cycle_type) ==
    UNION { [P -> {Ramp(n) : n \in 0..MaxFieldLen}]
            : P \in SUBSET Range(FieldsOf(cycle_type)) }

AllCycles ==
    UNION { { RawCycle(t, GoodTime, d) : d \in FieldData(t) } : t \in KnownTypes }
    \cup CycleInputs \cup NoDataCycles

\* process_metadata_and_cycles was just entered for battery B0005
InitCycle ==
    /\ pc = "loop"
    /\ runs = 1
    /\ filename = <<"B0005", "mat">>
    /\ file_id = 1
    /\ battery_id = "B0005"
    /\ has_data \in BOOLEAN
    /\ test_id = 0
    /\ cycle = NoCycle
    /\ cycle_info = << >>
    /\ saved = {}
    /\ metadata = [exists |-> FALSE, lines |-> << >>]
    /\ files = << >>
    /\ discharge_metadata = << >>
    /\ hi = 0
    /\ processed_dfs = << >>
    /\ health = [exists |-> FALSE, rows |-> << >>]

\* the first cycle of the battery, whatever it holds
SerializeCycle == test_id = 0 /\ LoopIteration(AllCycles)

NextCycle == SerializeCycle \/ EndCall

SpecCycle == InitCycle /\ [][NextCycle]_vars

\* ------------------------------------- the estimator on every short series
Volts == {26, 27, 30}

Currents == {-14, 20}

Steps == {1800, 3600}

\* the series of n samples: the first at time 0, each later one a step on
RECURSIVE Times(_, _)
Times(steps, k) == IF k = 0 THEN 0 ELSE Times(steps, k - 1) + steps[k]

Series(v, i, d) == [k \in DOMAIN v |-> Sample(v[k], i[k], Times(d, k - 1))]

\* load_data.py has run once over a folder holding B0005.mat, a battery
\* with one discharge cycle
InitHealth ==
    \E n \in 0..MaxLen :
      \E v \in [1..n -> Volts], i \in [1..n -> Currents], d \in [1..(n - 1) -> Steps] :
        LET c == RawCycle("discharge", GoodTime, DataOf(Series(v, i, d)))
        IN  /\ pc = "idle"
            /\ runs = 1
            /\ filename = << >>
            /\ file_id = 1
            /\ battery_id = ""
            /\ has_data = TRUE
            /\ test_id = 0
            /\ cycle = NoCycle
            /\ cycle_info = << >>
            /\ saved = {}
            /\ metadata = AppendCsv([exists |-> FALSE, lines |-> << >>],
                                    <<MetadataRow(c, "discharge", "B0005", 0, 1)>>)
            /\ files = (FileNumber(1) :> process_cycle_data(c, "discharge").df)
            /\ discharge_metadata = << >>
            /\ hi = 0
            /\ processed_dfs = << >>
            /\ health = [exists |-> FALSE, rows |-> << >>]

NextHealth == HealthStart \/ HealthRow \/ HealthFinish

SpecHealth == InitHealth /\ [][NextHealth]_vars

\* ================================================================ claims
MetaRows == Rows(metadata.lines)

\* how many lines of the index are the header line
HeaderCount(lines) == Cardinality({k \in DOMAIN lines : lines[k] = metadata_columns})

\* C1: a cycle that process_cycle_data skips (no 'data' container, or a type
\* that is not charge, discharge or impedance) does not consume a global
\* identifier: over a loop iteration that wrote no table, file_id keeps its
\* value.
C1_SkipKeepsFileId ==
    [][(pc = "loop" /\ pc' = "loop" /\ saved' = saved) => file_id' = file_id]_vars

\* C2: the uid column is strictly increasing (so unique) over all rows of
\* the metadata index, across batteries and across runs that append to it.
C2_UidStrictlyIncreasing ==
    \A a, b \in DOMAIN MetaRows :
        a < b => Get(MetaRows[a], "uid") < Get(MetaRows[b], "uid")

\* C3: the metadata index is append-only with a single header: no step
\* changes a line written earlier, a call appends exactly its rows, the
\* header is the first line, appears once, and is written only by the call
\* that creates the file.
C3_AppendOnlySingleHeader ==
    [][/\ Len(metadata'.lines) >= Len(metadata.lines)
       /\ SubSeq(metadata'.lines, 1, Len(metadata.lines)) = metadata.lines
       /\ metadata.exists => metadata'.exists
       /\ metadata'.exists =>
            /\ HeaderCount(metadata'.lines) = 1
            /\ metadata'.lines[1] = metadata_columns
       /\ HeaderCount(metadata'.lines) > HeaderCount(metadata.lines) => ~metadata.exists
       /\ (pc = "loop" /\ pc' = "main") =>
            Rows(metadata'.lines) = Rows(metadata.lines) \o cycle_info]_vars

\* a second run has appended rows behind those of the first
C3_Witness ==
    /\ runs = 2
    /\ HeaderCount(metadata.lines) = 1
    /\ \E a, b \in DOMAIN MetaRows :
          a < b /\ Get(MetaRows[a], "uid") = 1 /\ Get(MetaRows[b], "uid") = 1

\* the longest raw field among the declared fields present
LongestPresent(c) ==
    LET lens == {Len(c.data[f]) : f \in Range(FieldsOf(c.type)) \cap DOMAIN c.data}
                \cup {0}
    IN  CHOOSE m \in lens : \A x \in lens : x <= m

\* C4: the table written for a cycle of a known type has exactly the
\* declared columns of the type in declared order, a column for a field the
\* raw record lacks too; every column is as long as the longest field
\* present, holding the field's values and then "" cells.
C4_TableShape ==
    (pc = "loop" /\ cycle.has_data /\ cycle.type \in KnownTypes) =>
        LET table == files[Get(cycle_info[Len(cycle_info)], "filename")]
            fields == FieldsOf(cycle.type)
            m == LongestPresent(cycle)
        IN  /\ table.columns = fields
            /\ DOMAIN table.col = Range(fields)
            /\ \A f \in Range(fields) :
                 /\ Len(table.col[f]) = m
                 /\ \A k \in 1..m :
                      table.col[f][k] =
                        IF f \in DOMAIN cycle.data /\ k <= Len(cycle.data[f])
                        THEN <<cycle.data[f][k]>>
                        ELSE << >>

\* a discharge cycle with a field missing and two fields of different length
C4_Witness ==
    /\ pc = "loop"
    /\ cycle.has_data
    /\ cycle.type = "discharge"
    /\ "Current_load" \notin DOMAIN cycle.data
    /\ "Voltage_measured" \in DOMAIN cycle.data
    /\ "Time" \in DOMAIN cycle.data
    /\ Len(cycle.data["Voltage_measured"]) = 2
    /\ Len(cycle.data["Time"]) = 1

\* the discharge row process_data.py handled last, its table as read, and
\* the measured voltage and current, and the time, of row k of the table
LastRow == discharge_metadata[hi - 1]

LastDf == read_csv(files[Get(LastRow.row, "filename")])

Handled == pc = "health" /\ hi >= 2

V(df, k) == df[k]["Voltage_measured"][1]

I(df, k) == df[k]["Current_measured"][1]

T(df, k) == df[k]["Time"][1]

\* the rows before the first one measured below the cutoff voltage
KeptLen(df) ==
    IF \A k \in DOMAIN df : V(df, k) >= CutoffVoltage THEN Len(df)
    ELSE (CHOOSE k \in DOMAIN df :
              /\ V(df, k) < CutoffVoltage
              /\ \A j \in 1..(k - 1) : V(df, j) >= CutoffVoltage) - 1

RECURSIVE SumOver(_, _, _)
SumOver(f, a, b) == IF a > b THEN 0 ELSE f[a] + SumOver(f, a + 1, b)

\* |sum of current * elapsed time| over the first n rows, the first elapsed
\* time being 0
ChargeMoved(df, n) ==
    Abs(SumOver([k \in 1..n |-> IF k = 1 THEN 0
                                  ELSE I(df, k) * (T(df, k) - T(df, k - 1))], 1, n))

\* the rows averaged into row k of a group, and the rows before them
BinSize(g, k) == g[k].Voltage_measured[2]

BinStart(g, k) == SumOver([j \in DOMAIN g |-> BinSize(g, j)], 1, k - 1)

\* the (battery_id, cycle_number) pairs of the rows of the health dataset
HealthCycles(rows) == {<<rows[k].battery_id, rows[k].cycle_number>> : k \in DOMAIN rows}

\* C5: no partial emission.  A discharge cycle adds exactly num_bins rows to
\* the health dataset or none, whatever the length of its trimmed series;
\* the rows of an accepted cycle average contiguous runs of the trimmed
\* series that cover it in order and whose sizes differ by at most one; the
\* dataset has num_bins rows for each accepted cycle.
C5_NoPartialEmission ==
    /\ \A n \in DOMAIN processed_dfs : Len(processed_dfs[n]) = NumBins
    /\ Handled =>
         \/ processed_dfs = << >>
         \/ /\ Len(processed_dfs) = 1
            /\ LET g == processed_dfs[1]
                   df == LastDf
               IN  /\ \A a, b \in DOMAIN g : BinSize(g, a) - BinSize(g, b) <= 1
                   /\ BinStart(g, Len(g) + 1) = KeptLen(df)
                   /\ \A k \in DOMAIN g :
                        /\ BinSize(g, k) >= 1
                        /\ g[k].Voltage_measured[1] =
                             SumOver([j \in DOMAIN df |-> V(df, j)],
                                     BinStart(g, k) + 1, BinStart(g, k) + BinSize(g, k))
    /\ health.exists =>
         Len(health.rows) = NumBins * Cardinality(HealthCycles(health.rows))

\* an accepted cycle whose bins are not all of one size
C5_Witness ==
    /\ Handled
    /\ Len(processed_dfs) = 1
    /\ BinSize(processed_dfs[1], 1) = 2
    /\ BinSize(processed_dfs[1], NumBins) = 1

\* C6: the capacity of a cycle is |sum of current * elapsed hours| over the
\* trimmed series, the first elapsed time being 0.  At or below
\* min_capacity the cycle yields no health rows; above it the cycle goes on
\* to binning (and yields rows, carrying the capacity in SoH, when the
\* trimmed series fills the bins).
C6_CapacityThreshold ==
    Handled =>
        LET df == LastDf
            n == KeptLen(df)
            capacity == ChargeMoved(df, n)
        IN  /\ capacity <= MinCapacity => processed_dfs = << >>
            /\ (capacity > MinCapacity /\ n >= NumBins) =>
                 /\ Len(processed_dfs) = 1
                 /\ \A k \in DOMAIN processed_dfs[1] :
                      processed_dfs[1][k].SoH = <<100 * capacity, NominalCapacity>>

\* a cycle of exactly min_capacity, long enough to fill the bins, is dropped
C6_Witness ==
    /\ Handled
    /\ KeptLen(LastDf) >= NumBins
    /\ ChargeMoved(LastDf, KeptLen(LastDf)) = MinCapacity
    /\ processed_dfs = << >>

\* C7: the discharge series is cut at the first row measured strictly below
\* cutoff_voltage: the rows before it are kept, that row and all after it
\* are dropped; a series never below the cutoff is kept whole.
C7_TruncateAtCutoff ==
    Handled =>
        LET df == LastDf
            trimmed_df == Trim(df)
        IN  /\ trimmed_df = SubSeq(df, 1, KeptLen(df))
            /\ (\A k \in DOMAIN df : V(df, k) >= CutoffVoltage) => trimmed_df = df
            /\ processed_dfs # << >> =>
                 BinStart(processed_dfs[1], NumBins + 1) = KeptLen(df)

\* a series cut after NumBins rows, at the cutoff voltage exactly before that
C7_Witness ==
    /\ Handled
    /\ Len(LastDf) = NumBins + 1
    /\ V(LastDf, NumBins) = CutoffVoltage
    /\ V(LastDf, NumBins + 1) < CutoffVoltage
    /\ processed_dfs # << >>

ExcludedIds == {"B0049", "B0050", "B0051", "B0052"}

DischargeIndex(rows, j) ==
    CHOOSE a \in DOMAIN rows :
        /\ Get(rows[a], "type") = "discharge"
        /\ Cardinality({b \in 1..a : Get(rows[b], "type") = "discharge"}) = j

\* the discharge rows of the battery of row a, up to row a
DischargeUpTo(rows, a) ==
    {b \in 1..a : /\ Get(rows[b], "type") = "discharge"
                  /\ Get(rows[b], "battery_id") = Get(rows[a], "battery_id")}

\* positions of discharge_metadata, increasing, whose rows gave the groups
IsSubsequence(groups, dm, upto) ==
    \E pos \in [DOMAIN groups -> 1..upto] :
        /\ \A a, b \in DOMAIN groups : a < b => pos[a] < pos[b]
        /\ \A a \in DOMAIN groups : \A k \in DOMAIN groups[a] :
             /\ groups[a][k].battery_id = Get(dm[pos[a]].row, "battery_id")
             /\ groups[a][k].cycle_number = dm[pos[a]].cycle_number

\* C9: cycle_number is the 1-based running count of the discharge rows of
\* the metadata index per battery_id, in row order: the k-th discharge row
\* of a battery has cycle_number k, whatever rows lie between and whether
\* or not earlier cycles were rejected; the rows of an accepted cycle carry
\* the number of its metadata row.
C9_CycleNumberPerBattery ==
    pc = "health" =>
        /\ Len(discharge_metadata) =
             Cardinality({a \in DOMAIN MetaRows : Get(MetaRows[a], "type") = "discharge"})
        /\ \A j \in DOMAIN discharge_metadata :
             LET a == DischargeIndex(MetaRows, j)
             IN  /\ discharge_metadata[j].row = MetaRows[a]
                 /\ discharge_metadata[j].cycle_number =
                      Cardinality(DischargeUpTo(MetaRows, a))
        /\ IsSubsequence(processed_dfs, discharge_metadata, hi - 1)

\* the second discharge of a battery, after a charge and after a first
\* discharge that was rejected, is accepted and carries number 2
C9_Witness ==
    /\ pc = "health"
    /\ Len(processed_dfs) = 1
    /\ processed_dfs[1][1].cycle_number = 2
    /\ \E j \in 1..(hi - 1) :
         /\ discharge_metadata[j].cycle_number = 2
         /\ Get(discharge_metadata[j].row, "test_id") = 2

\* C10: every row appended to the metadata index names a table that
\* process_cycle_data wrote during the same call.
C10_RowsNameWrittenTables ==
    [][(pc = "loop" /\ pc' = "main") =>
          \A k \in DOMAIN cycle_info : Get(cycle_info[k], "filename") \in saved]_vars

====
